---- MODULE Spec2Model ----
(***************************************************************************)
(* Model of the TypeScript language-service bridge of cli/lsp/tsc.rs:      *)
(* the TsServer facade, the request channel, the host thread that owns the *)
(* analyzer runtime, the op state the analyzer reaches through the ops,    *)
(* and the analyzer itself as an arbitrary script that polls, responds,    *)
(* returns or throws.                                                      *)
(***************************************************************************)
EXTENDS Integers, Sequences, FiniteSets, TLC

\* Number of facade calls made on one TsServer; a call is named by its rank
\* in the order in which the calls reach the sender.
MaxReq == 2
\* Number of distinct payloads the analyzer can hand to the respond op.
MaxData == 1
Calls == 1..MaxReq
Data == 1..MaxData

\* The request kinds that the host loop could treat differently.
Methods == {"getDiagnostics", "restart"}

VARIABLES
  chan,          \* mpsc::unbounded_channel::<Request>(): the queued requests
  handles,       \* TRUE while a TsServer handle (the sender half) is alive
  pc,            \* position of the host thread in its loop
  started,       \* the `started` latch of the host loop
  ts_runtime,    \* generation of the JsRuntime owned by the host thread
  cur,           \* the request the loop iteration has received
  value,         \* the Result<Value, AnyError> returned by request()
  last_id,       \* State::last_id
  response,      \* State::response (0 is None)
  state_snapshot,\* State::state_snapshot (0 is the empty one of the extension)
  token,         \* State::token (0 is a default, never cancelled token)
  tokens,        \* the cancellation tokens the callers have supplied
  cancelled,     \* the caller-supplied tokens that have been cancelled
  slot,          \* per facade call: its oneshot reply-slot
  active,        \* the serverRequest executions in progress in the runtime
  initCount,     \* number of serverInit executions that succeeded
  enq,           \* history: call ids in the order the channel accepted them
  invoked,       \* history: call ids in the order serverRequest was invoked
  sendOrder,     \* history: call ids in the order tx.send was executed
  call,          \* history: what the analyzer did during the current call
  fop,           \* the TsServer operations that were called, in order
  fres,          \* what request::<R>() gave each of them
  fret,          \* what each of them gave its caller
  specifiers,    \* State::specifiers: normalized spelling -> original one
  emitted,       \* history: the spellings the analyzer has passed to the ops
  wire,          \* the specifiers in the payload RequestMethod::to_value built
  assets,        \* the AssetsMap behind Assets::assets
  snapTaken,     \* TRUE once Assets::snapshot has handed out a snapshot
  snapAt,        \* history: the AssetsMap when the snapshot was taken
  offered,       \* history: the assets the last Assets::initialize received
  ltext,         \* the text given to replace_links
  lonce,         \* replace_links(ltext)
  ltwice,        \* replace_links(replace_links(ltext))
  entry,         \* the CompletionEntry given to get_filter_text
  filter_text,   \* what get_filter_text returned for it
  text_edit,     \* the lsp::TextEdit given to update_import_statement
  item_data,     \* the item data and what the resolvers answer for it
  updated,       \* the lsp::TextEdit that update_import_statement returned
  documents,     \* what op_script_names reads from the snapshot's documents
  script_names,  \* the list op_script_names returned
  spans,         \* Classifications::spans
  semantic_tokens,\* what to_semantic_tokens made of the spans
  nav,           \* the NavigationTree the analyzer returned
  document_symbols,\* what collect_document_symbols made of it
  actions,       \* ApplicableRefactorInfo::actions, by their names
  code_actions   \* what to_code_actions made of them

hostAll == <<chan, handles, pc, started, ts_runtime, cur, value, last_id,
             response, state_snapshot, token, tokens, cancelled, slot, active,
             initCount, enq, invoked, sendOrder, call>>
facadeVars == <<fop, fres, fret>>
normVars == <<specifiers, emitted, wire>>
assetVars == <<assets, snapTaken, snapAt, offered>>
linkVars == <<ltext, lonce, ltwice>>
filterVars == <<entry, filter_text>>
importVars == <<text_edit, item_data, updated>>
namesVars == <<documents, script_names>>
semVars == <<spans, semantic_tokens>>
symVars == <<nav, document_symbols>>
refactorVars == <<actions, code_actions>>
\* The state of the bridge proper, and the translators' variables.
bridgeVars == <<hostAll, facadeVars, normVars, assetVars, linkVars>>
pureVars == <<filterVars, importVars, namesVars, semVars, symVars,
              refactorVars>>
\* For each translator, the variables of the others.
besidesFilter == <<importVars, namesVars, semVars, symVars, refactorVars>>
besidesImport == <<filterVars, namesVars, semVars, symVars, refactorVars>>
besidesNames == <<filterVars, importVars, semVars, symVars, refactorVars>>
besidesSem == <<filterVars, importVars, namesVars, symVars, refactorVars>>
besidesSym == <<filterVars, importVars, namesVars, semVars, refactorVars>>
besidesRefactor == <<filterVars, importVars, namesVars, semVars, symVars>>
\* What the host thread and its callers leave alone.
aux == <<facadeVars, normVars, assetVars, linkVars, pureVars>>

vars == <<hostAll, aux>>

hostVars == <<pc, started, ts_runtime, cur, value>>
opState == <<last_id, response, state_snapshot, token>>
history == <<enq, invoked, sendOrder, call>>

\* A Result<Value, AnyError>.
Ok(d) == [ok |-> TRUE, data |-> d, err |-> ""]
Err(e) == [ok |-> FALSE, data |-> 0, err |-> e]
NoValue == [ok |-> FALSE, data |-> 0, err |-> "-"]

\* A Request tuple; the oneshot sender it carries is slot[id].
Request(c, m, s, t) == [id |-> c, method |-> m, snap |-> s, tok |-> t]
NoReq == [id |-> 0, method |-> "-", snap |-> 0, tok |-> 0]

\* During a call: the last payload handed to op_respond (0 is none), the last
\* answer of op_is_cancelled and how serverRequest ended.
NoCall == [resp |-> 0, saw |-> "-", out |-> "-"]

\* Number of path pieces of a specifier spelling; a piece is a name, "a", or
\* the extension ".d.ts", "D". The spellings are canonical absolute URLs,
\* which ModuleSpecifier::parse and to_string give back as they are.
MaxSpecLen == 3
\* Number of spellings the analyzer passes to the ops.
MaxEmit == 2

RECURSIVE SeqsUpTo(_, _)
SeqsUpTo(S, n) ==
  IF n = 0 THEN {<<>>}
  ELSE LET shorter == SeqsUpTo(S, n - 1)
       IN  shorter \cup {Append(q, x) : q \in shorter, x \in S}

Spellings == SeqsUpTo({"a", "D"}, MaxSpecLen) \ {<<>>}

\* Number of asset specifiers.
MaxAsset == 2
AssetNames == 1..MaxAsset
Texts == {"t1", "t2"}
Trees == {"n1", "n2"}

\* HashMap::insert and HashMap::get; a map is a function on its keys.
Insert(m, k, v) == [x \in DOMAIN m \cup {k} |-> IF x = k THEN v ELSE m[x]]

\* An AssetDocument; tree "-" stands for maybe_navigation_tree = None.
\* NoAsset is the None a lookup gives for a specifier that has no entry.
AssetDocument(t) == [text |-> t, tree |-> "-"]
NoAsset == [text |-> "-", tree |-> "-"]
Lookup(m, k) == IF k \in DOMAIN m THEN m[k] ELSE NoAsset

\* new_assets_map(): the map seeded from the static assets, here asset 1.
new_assets_map == [k \in {1} |-> AssetDocument("t1")]

\* An Option<String>; a string is the sequence of its pieces.
None == [st |-> "none", text |-> <<>>]
Some(x) == [st |-> "some", text |-> x]
\* No result computed yet.
NotYet == [st |-> "-", text |-> <<>>]

\* A CompletionEntry, as far as get_filter_text reads it; the empty name
\* stands for no entry received yet.
CompletionEntry(n, i) == [name |-> n, insert_text |-> i]
NoEntry == CompletionEntry(<<>>, None)

\* An lsp::TextEdit; range 0 stands for no edit.
TextEdit(r, t) == [range |-> r, new_text |-> t]
NoEdit == TextEdit(0, <<>>)

\* What update_import_statement learns from its item data: whether data
\* decodes as CompletionEntryDataImport, whether its file_name normalizes,
\* what the import mapper answers ("absent" when no mapper is supplied) and
\* what relative_specifier answers.
ItemData(d, n, m, r) == [import_data |-> d, norm_ok |-> n, mapper |-> m,
                         relative |-> r]
NoItem == ItemData(FALSE, FALSE, "-", "-")

\* The specifiers of a wire payload: as they were sent, and as
\* denormalize_specifier gave them at that moment.
Wire(m, s, d) == [method |-> m, sent |-> s, denormalized |-> d]
NoWire == Wire("-", <<>>, <<>>)

\* What op_script_names reads: has_injected_types_node_package(),
\* module_graph_imports(), and the specifier of every diagnosable document
\* followed by those of its dependencies.
Documents(n, i, d) == [node |-> n, imports |-> i, docs |-> d]
NoDocuments == Documents(FALSE, <<>>, <<>>)
\* The result of op_script_names, once it has run.
NoNames == [done |-> FALSE, names |-> <<>>]

\* The outcome of to_semantic_tokens: "ok" with the tokens pushed to the
\* builder, "err" for LspError::internal_error(), "panic" for the failed
\* assertion; "-" before the call.
SemanticTokens(st, data) == [st |-> st, data |-> data]
NoTokens == SemanticTokens("-", <<>>)

\* A NavigationTree, with the fields the document symbols are made from;
\* child_items None is the empty sequence.
NavigationTree(kind, text, sps, items) ==
  [kind |-> kind, text |-> text, spans |-> sps, child_items |-> items]
NoTree == NavigationTree("", "", <<>>, <<>>)
\* What collect_document_symbols returned, and the symbols it pushed.
Collected(included, symbols) == [included |-> included, symbols |-> symbols]
NoSymbols == [done |-> FALSE, included |-> FALSE, symbols |-> <<>>]

\* The code actions of a refactor, none before to_code_actions ran.
NoCodeActions == [done |-> FALSE, list |-> <<>>]

\* The receiver half of the request channel lives in the host loop's future.
RxAlive == pc \notin {"panicked", "exit"}

Init ==
  /\ chan = <<>>
  /\ handles = TRUE
  /\ pc = "recv"
  /\ started = FALSE
  /\ ts_runtime = 1
  /\ cur = NoReq
  /\ value = NoValue
  /\ last_id = 1
  /\ response = 0
  /\ state_snapshot = 0
  /\ token = 0
  /\ tokens = {}
  /\ cancelled = {}
  /\ slot = [c \in Calls |-> [st |-> "none", val |-> NoValue]]
  /\ active = {}
  /\ initCount = 0
  /\ enq = <<>>
  /\ invoked = <<>>
  /\ sendOrder = <<>>
  /\ call = NoCall
  /\ fop = <<>>
  /\ fres = <<>>
  /\ fret = <<>>
  /\ specifiers = <<>>
  /\ emitted = {}
  /\ wire = NoWire
  /\ assets = new_assets_map
  /\ snapTaken = FALSE
  /\ snapAt = <<>>
  /\ offered = <<>>
  /\ ltext = <<>>
  /\ lonce = <<>>
  /\ ltwice = <<>>
  /\ entry = NoEntry
  /\ filter_text = NotYet
  /\ text_edit = NoEdit
  /\ item_data = NoItem
  /\ updated = NoEdit
  /\ documents = NoDocuments
  /\ script_names = NoNames
  /\ spans = <<>>
  /\ semantic_tokens = NoTokens
  /\ nav = NoTree
  /\ document_symbols = NoSymbols
  /\ actions = <<>>
  /\ code_actions = NoCodeActions

----------------------------------------------------------------------------
\* The facade.

\* The Arc<StateSnapshot> a facade call passes: the one taken for that call.
SnapshotOf(c) == c

\* TsServer::request_with_cancellation up to the await of the reply-slot;
\* t is the call's own token, or 0 for the default token of TsServer::request.
Call(c, m, s, t) ==
  /\ handles
  /\ slot[c].st = "none"
  /\ \A b \in 1..(c - 1) : slot[b].st # "none"
  /\ tokens' = IF t = 0 THEN tokens ELSE tokens \cup {t}
  /\ IF RxAlive
       THEN /\ chan' = Append(chan, Request(c, m, s, t))
            /\ slot' = [slot EXCEPT ![c].st = "pending"]
            /\ enq' = Append(enq, c)
       ELSE /\ slot' = [slot EXCEPT ![c] = [st |-> "done",
                                            val |-> Err("SendError")]]
            /\ UNCHANGED <<chan, enq>>
  /\ UNCHANGED <<handles, hostVars, opState, cancelled, active, initCount,
                 invoked, sendOrder, call, aux>>

\* The caller cancels the token it supplied (CancellationToken::cancel).
Cancel(c) ==
  /\ c \in tokens \ cancelled
  /\ cancelled' = cancelled \cup {c}
  /\ UNCHANGED <<chan, handles, hostVars, opState, tokens, slot, active,
                 initCount, history, aux>>

\* The caller drops the future that awaits the reply-slot (oneshot receiver).
DropReceiver(c) ==
  /\ slot[c].st = "pending"
  /\ slot' = [slot EXCEPT ![c].st = "dropped"]
  /\ UNCHANGED <<chan, handles, hostVars, opState, tokens, cancelled, active,
                 initCount, history, aux>>

\* The last TsServer handle is dropped.
DropHandles ==
  /\ handles
  /\ handles' = FALSE
  /\ UNCHANGED <<chan, hostVars, opState, tokens, cancelled, slot, active,
                 initCount, history, aux>>

----------------------------------------------------------------------------
\* The host thread.

\* A receive that takes the newest request of the channel, not the oldest.
HostRecv_lifo ==
  /\ pc = "recv"
  /\ chan # <<>>
  /\ cur' = chan[Len(chan)]
  /\ chan' = SubSeq(chan, 1, Len(chan) - 1)
  /\ pc' = IF started THEN "request" ELSE "start"
  /\ UNCHANGED <<handles, started, ts_runtime, value, opState, tokens,
                 cancelled, slot, active, initCount, history, aux>>

\* A receive that drops a request whose token is already cancelled instead of
\* dispatching it.
HostRecv_skipCancelled ==
  /\ pc = "recv"
  /\ chan # <<>>
  /\ chan' = Tail(chan)
  /\ IF Head(chan).tok \in cancelled
       THEN /\ slot' = [slot EXCEPT ![Head(chan).id] =
                          [st |-> "closed", val |-> Err("RecvError")]]
            /\ UNCHANGED <<cur, pc>>
       ELSE /\ cur' = Head(chan)
            /\ pc' = IF started THEN "request" ELSE "start"
            /\ UNCHANGED slot
  /\ UNCHANGED <<handles, started, ts_runtime, value, opState, tokens,
                 cancelled, active, initCount, history, aux>>

\* rx.recv().await yields Some(request).
HostRecv ==
  /\ pc = "recv"
  /\ chan # <<>>
  /\ cur' = Head(chan)
  /\ chan' = Tail(chan)
  /\ pc' = IF started THEN "request" ELSE "start"
  /\ UNCHANGED <<handles, started, ts_runtime, value, opState, tokens,
                 cancelled, slot, active, initCount, history, aux>>

\* rx.recv().await yields None: the channel is empty and every sender is gone.
HostExit ==
  /\ pc = "recv"
  /\ chan = <<>>
  /\ ~handles
  /\ pc' = "exit"
  /\ UNCHANGED <<chan, handles, started, ts_runtime, cur, value, opState,
                 tokens, cancelled, slot, active, initCount, history, aux>>

\* A loop without the latch: start() runs and `started` stays false.
StartOk_noLatch ==
  /\ pc = "start"
  /\ started' = FALSE
  /\ initCount' = initCount + 1
  /\ pc' = "request"
  /\ UNCHANGED <<chan, handles, ts_runtime, cur, value, opState, tokens,
                 cancelled, slot, active, history, aux>>

\* start() returns Ok: serverInit ran.
StartOk ==
  /\ pc = "start"
  /\ started' = TRUE
  /\ initCount' = initCount + 1
  /\ pc' = "request"
  /\ UNCHANGED <<chan, handles, ts_runtime, cur, value, opState, tokens,
                 cancelled, slot, active, history, aux>>

\* The senders a panic of the host thread drops: the one of the request in
\* hand and those of the requests still in the channel.
DroppedSenders == {cur.id} \cup {chan[i].id : i \in 1..Len(chan)}

\* start() returns Err: unwrap() panics, the loop's future is dropped with the
\* receiver, the queued requests and the reply sender in hand.
StartFail ==
  /\ pc = "start"
  /\ pc' = "panicked"
  /\ slot' = [c \in Calls |->
                IF c \in DroppedSenders
                  THEN [st |-> "closed", val |-> Err("RecvError")]
                  ELSE slot[c]]
  /\ chan' = <<>>
  /\ cur' = NoReq
  /\ UNCHANGED <<handles, started, ts_runtime, value, opState, tokens,
                 cancelled, active, initCount, history, aux>>

\* A loop that hands each request to its own task: the next request is
\* received while serverRequest is still running, and its call begins.
RequestBegin_spawned ==
  /\ \/ /\ pc = "request"
        /\ UNCHANGED <<chan, cur>>
     \/ /\ pc = "script"
        /\ chan # <<>>
        /\ cur' = Head(chan)
        /\ chan' = Tail(chan)
  /\ state_snapshot' = cur'.snap
  /\ token' = cur'.tok
  /\ last_id' = last_id + 1
  /\ active' = active \cup {cur'.id}
  /\ invoked' = Append(invoked, cur'.id)
  /\ pc' = "script"
  /\ UNCHANGED <<handles, started, ts_runtime, value, response, tokens,
                 cancelled, slot, initCount, enq, sendOrder, call, aux>>

\* A request() that installs the snapshot but leaves the token of the request
\* before in the op state.
RequestBegin_staleToken ==
  /\ pc = "request"
  /\ state_snapshot' = cur.snap
  /\ token' = token
  /\ last_id' = last_id + 1
  /\ active' = active \cup {cur.id}
  /\ invoked' = Append(invoked, cur.id)
  /\ pc' = "script"
  /\ UNCHANGED <<chan, handles, started, ts_runtime, cur, value, response,
                 tokens, cancelled, slot, initCount, enq, sendOrder, call,
                 aux>>

\* request(): install the snapshot and the token, take the next id and enter
\* globalThis.serverRequest.
RequestBegin ==
  /\ pc = "request"
  /\ state_snapshot' = cur.snap
  /\ token' = cur.tok
  /\ last_id' = last_id + 1
  /\ active' = active \cup {cur.id}
  /\ invoked' = Append(invoked, cur.id)
  /\ pc' = "script"
  /\ UNCHANGED <<chan, handles, started, ts_runtime, cur, value, response,
                 tokens, cancelled, slot, initCount, enq, sendOrder, call,
                 aux>>

\* op_respond, called by the analyzer with a payload.
OpRespond(d) ==
  /\ pc = "script"
  /\ response' = d
  /\ call' = [call EXCEPT !.resp = d]
  /\ UNCHANGED <<chan, handles, hostVars, last_id, state_snapshot, token,
                 tokens, cancelled, slot, active, initCount, enq, invoked,
                 sendOrder, aux>>

\* op_is_cancelled, polled by the analyzer.
OpIsCancelled ==
  /\ pc = "script"
  /\ call' = [call EXCEPT !.saw = IF token \in cancelled THEN "yes" ELSE "no"]
  /\ UNCHANGED <<chan, handles, hostVars, opState, tokens, cancelled, slot,
                 active, initCount, enq, invoked, sendOrder, aux>>

\* The tail of request(): take the stashed response, or report that none came.
TakeResponse == IF response # 0 THEN Ok(response)
                ELSE Err("RequestError")

\* serverRequest returns and request() finishes.
ScriptReturn ==
  /\ pc = "script"
  /\ value' = TakeResponse
  /\ response' = 0
  /\ active' = active \ {cur.id}
  /\ call' = [call EXCEPT !.out = "return"]
  /\ pc' = "send"
  /\ UNCHANGED <<chan, handles, started, ts_runtime, cur, last_id,
                 state_snapshot, token, tokens, cancelled, slot, initCount,
                 enq, invoked, sendOrder, aux>>

\* serverRequest throws: execute_script(..)? leaves request() at once.
ScriptThrow ==
  /\ pc = "script"
  /\ value' = Err("JsError")
  /\ active' = active \ {cur.id}
  /\ call' = [call EXCEPT !.out = "throw"]
  /\ pc' = "send"
  /\ UNCHANGED <<chan, handles, started, ts_runtime, cur, opState, tokens,
                 cancelled, slot, initCount, enq, invoked, sendOrder, aux>>

\* A send that keeps an error result back: the reply sender is parked and the
\* slot never completes.
HostSend_errParked ==
  /\ pc = "send"
  /\ slot' = IF slot[cur.id].st = "pending" /\ value.ok
               THEN [slot EXCEPT ![cur.id] = [st |-> "done", val |-> value]]
               ELSE slot
  /\ sendOrder' = IF value.ok THEN Append(sendOrder, cur.id) ELSE sendOrder
  /\ cur' = NoReq
  /\ value' = NoValue
  /\ call' = NoCall
  /\ pc' = "recv"
  /\ UNCHANGED <<chan, handles, started, ts_runtime, opState, tokens,
                 cancelled, active, initCount, enq, invoked, aux>>

\* A send that unwraps its result: a dropped receiver panics the host thread.
HostSend_unwrap ==
  /\ pc = "send"
  /\ IF slot[cur.id].st = "pending"
       THEN /\ slot' = [slot EXCEPT ![cur.id] = [st |-> "done", val |-> value]]
            /\ pc' = "recv"
            /\ UNCHANGED chan
       ELSE /\ slot' = [c \in Calls |->
                          IF c \in {chan[i].id : i \in 1..Len(chan)}
                            THEN [st |-> "closed", val |-> Err("RecvError")]
                            ELSE slot[c]]
            /\ pc' = "panicked"
            /\ chan' = <<>>
  /\ sendOrder' = Append(sendOrder, cur.id)
  /\ cur' = NoReq
  /\ value' = NoValue
  /\ call' = NoCall
  /\ UNCHANGED <<handles, started, ts_runtime, opState, tokens, cancelled,
                 active, initCount, enq, invoked, aux>>

\* A send that, after a restart request, recreates the runtime and resets the
\* started latch.
HostSend_restartResets ==
  /\ pc = "send"
  /\ slot' = IF slot[cur.id].st = "pending"
               THEN [slot EXCEPT ![cur.id] = [st |-> "done", val |-> value]]
               ELSE slot
  /\ sendOrder' = Append(sendOrder, cur.id)
  /\ started' = IF cur.method = "restart" THEN FALSE ELSE started
  /\ ts_runtime' = IF cur.method = "restart" THEN ts_runtime + 1
                   ELSE ts_runtime
  /\ cur' = NoReq
  /\ value' = NoValue
  /\ call' = NoCall
  /\ pc' = "recv"
  /\ UNCHANGED <<chan, handles, opState, tokens, cancelled, active, initCount,
                 enq, invoked, aux>>

\* tx.send(value); a failed send is only logged.
HostSend ==
  /\ pc = "send"
  /\ slot' = IF slot[cur.id].st = "pending"
               THEN [slot EXCEPT ![cur.id] = [st |-> "done", val |-> value]]
               ELSE slot
  /\ sendOrder' = Append(sendOrder, cur.id)
  /\ cur' = NoReq
  /\ value' = NoValue
  /\ call' = NoCall
  /\ pc' = "recv"
  /\ UNCHANGED <<chan, handles, started, ts_runtime, opState, tokens,
                 cancelled, active, initCount, enq, invoked, aux>>

----------------------------------------------------------------------------
Next ==
  \/ \E c \in Calls, m \in Methods :
       \E t \in {0, c} : Call(c, m, SnapshotOf(c), t)
  \/ \E c \in Calls : Cancel(c)
  \/ \E c \in Calls : DropReceiver(c)
  \/ DropHandles
  \/ HostRecv
  \/ HostExit
  \/ StartOk
  \/ StartFail
  \/ RequestBegin
  \/ \E d \in Data : OpRespond(d)
  \/ OpIsCancelled
  \/ ScriptReturn
  \/ ScriptThrow
  \/ HostSend

Spec == Init /\ [][Next]_vars

\* The host thread keeps running while it has a step to take, and a
\* serverInit or serverRequest execution comes to an end.
Fairness ==
  /\ WF_vars(HostRecv)
  /\ WF_vars(HostExit)
  /\ WF_vars(StartOk \/ StartFail)
  /\ WF_vars(RequestBegin)
  /\ WF_vars(ScriptReturn \/ ScriptThrow)
  /\ WF_vars(HostSend)

FairSpec == Spec /\ Fairness

----------------------------------------------------------------------------
\* The facade operations and what they make of a failed request.

\* The TsServer operations that treat the outcome of request() differently,
\* and Assets::initialize, which awaits one through get_isolate_assets.
Ops == {"get_diagnostics", "find_rename_locations", "get_code_fixes",
        "get_completions", "restart", "initialize"}

\* What a reply-slot holds when its await ends: a result the host sent, or
\* nothing because the sender was dropped.
Replies ==
  {[st |-> "done", val |-> Ok(d)] : d \in Data}
    \cup {[st |-> "done", val |-> Err("JsError")],
          [st |-> "done", val |-> Err("RequestError")],
          [st |-> "closed", val |-> Err("RecvError")]}

Failed(e) == [ok |-> FALSE, data |-> 0, err |-> e, shape |-> FALSE]

\* request_with_cancellation::<R>(): open tells whether the channel took the
\* request, shaped whether the payload is what the operation expects; R is
\* Value for get_isolate_assets, which no payload fails to decode into.
RequestResult(op, open, reply, shaped) ==
  IF ~open THEN Failed("SendError")
  ELSE IF reply.st = "closed" THEN Failed("RecvError")
  ELSE IF ~reply.val.ok THEN Failed(reply.val.err)
  ELSE IF ~shaped /\ op # "initialize" THEN Failed("DecodeError")
  ELSE [ok |-> TRUE, data |-> reply.val.data, err |-> "", shape |-> shaped]

Returned(k, e) == [kind |-> k, err |-> e]

\* get_completions with `?` in place of its match: the caller gets the error.
OpReturn_propagates(op, r) ==
  IF r.ok /\ (op = "initialize" => r.shape) THEN Returned("value", "")
  ELSE IF op = "get_diagnostics" THEN Returned("error", r.err)
  ELSE IF op = "find_rename_locations"
    THEN Returned("error", "invalid_request")
  ELSE IF op = "get_code_fixes" THEN Returned("empty", "")
  ELSE IF op = "get_completions" THEN Returned("error", r.err)
  ELSE Returned("panic", "")

\* What each operation gives its caller for the outcome r of its request:
\* get_diagnostics hands the Result on, find_rename_locations maps the error
\* to LspError::invalid_request(), get_code_fixes and get_completions log it
\* and give an empty vector or None, restart and get_isolate_assets unwrap it,
\* and get_isolate_assets hits unreachable!() on a payload of another shape.
OpReturn(op, r) ==
  IF r.ok /\ (op = "initialize" => r.shape) THEN Returned("value", "")
  ELSE IF op = "get_diagnostics" THEN Returned("error", r.err)
  ELSE IF op = "find_rename_locations"
    THEN Returned("error", "invalid_request")
  ELSE IF op \in {"get_code_fixes", "get_completions"}
    THEN Returned("empty", "")
  ELSE Returned("panic", "")

\* A caller enters an operation; the calls are made one after the other.
FacadeCall(op) ==
  /\ Len(fop) < MaxReq
  /\ Len(fret) = Len(fop)
  /\ fop' = Append(fop, op)
  /\ UNCHANGED <<hostAll, pureVars, fres, fret, normVars, assetVars, linkVars>>

\* The await of the operation's request ends.
FacadeAwait(open, reply, shaped) ==
  /\ Len(fres) < Len(fop)
  /\ fres' = Append(fres, RequestResult(fop[Len(fop)], open, reply, shaped))
  /\ UNCHANGED <<hostAll, pureVars, fop, fret, normVars, assetVars, linkVars>>

\* The operation returns to its caller, or panics the caller's task.
FacadeReturn ==
  /\ Len(fret) < Len(fres)
  /\ fret' = Append(fret, OpReturn(fop[Len(fres)], fres[Len(fres)]))
  /\ UNCHANGED <<hostAll, pureVars, fop, fres, normVars, assetVars, linkVars>>

FacadeNext ==
  \/ \E op \in Ops : FacadeCall(op)
  \/ \E open \in BOOLEAN, reply \in Replies, shaped \in BOOLEAN :
       FacadeAwait(open, reply, shaped)
  \/ FacadeReturn

FacadeSpec == Init /\ [][FacadeNext]_vars

----------------------------------------------------------------------------
\* The specifier map of the op state.

\* str::replace(".d.ts.d.ts", ".d.ts"): every non-overlapping occurrence,
\* from the left.
RECURSIVE Collapse(_)
Collapse(s) ==
  IF Len(s) < 2 THEN s
  ELSE IF s[1] = "D" /\ s[2] = "D"
    THEN <<"D">> \o Collapse(SubSeq(s, 3, Len(s)))
  ELSE <<s[1]>> \o Collapse(Tail(s))

\* State::denormalize_specifier: the memoized spelling, else the specifier's
\* own string.
Denormalize(k) == IF k \in DOMAIN specifiers THEN specifiers[k] ELSE k

\* State::normalize_specifier, as op_load, op_resolve and op_script_version
\* call it on a spelling s the analyzer passes in: a spelling that the
\* replacement changes is memoized under its collapsed form, replacing
\* whatever was there.
StateNormalize(s) ==
  /\ s \in emitted \/ Cardinality(emitted) < MaxEmit
  /\ specifiers' = IF Collapse(s) # s
                     THEN Insert(specifiers, Collapse(s), s)
                     ELSE specifiers
  /\ emitted' = emitted \cup {s}
  /\ UNCHANGED <<hostAll, pureVars, facadeVars, assetVars, linkVars, wire>>

\* The request kinds that differ in how to_value writes their specifiers.
WireMethods == {"getDefinition", "getDiagnostics", "getCompletionDetails",
                "getDocumentHighlights"}

\* The specifiers the editor asks about: those the analyzer was told of.
Known == {Collapse(s) : s \in emitted}

\* RequestMethod::to_value for a request about the specifier k, with k as
\* the only file to search: the "specifier" and "specifiers" fields go
\* through denormalize_specifier, while GetCompletionDetailsArgs and
\* files_to_search are serialized as they are.
to_value(m, k) ==
  IF m = "getCompletionDetails" THEN <<k>>
  ELSE IF m = "getDocumentHighlights" THEN <<Denormalize(k), k>>
  ELSE <<Denormalize(k)>>

\* request() builds the payload of a request about k.
ToValue(m, k) ==
  /\ wire' = Wire(m, to_value(m, k),
                  [i \in 1..Len(to_value(m, k)) |-> Denormalize(k)])
  /\ UNCHANGED <<hostAll, pureVars, facadeVars, assetVars, linkVars,
                 specifiers, emitted>>

NormNext ==
  \/ \E s \in Spellings : StateNormalize(s)
  \/ \E m \in WireMethods, k \in Known : ToValue(m, k)

NormSpec == Init /\ [][NormNext]_vars

----------------------------------------------------------------------------
\* The asset registry.

\* Assets::get and AssetsSnapshot::get: both lock the one map that the
\* registry and every snapshot of it share.
AssetsGet(k) == Lookup(assets, k)
SnapshotGet(k) == Lookup(assets, k)

\* Assets::initialize that inserts every asset of the isolate.
AssetInitialize_overwrites(off) ==
  /\ assets' = [k \in DOMAIN assets \cup DOMAIN off |->
                  IF k \in DOMAIN off THEN AssetDocument(off[k])
                  ELSE assets[k]]
  /\ offered' = off
  /\ UNCHANGED <<hostAll, pureVars, facadeVars, normVars, linkVars, snapTaken,
                 snapAt>>

\* Assets::initialize: of the assets the isolate reports, off, those whose
\* specifier the map does not hold are inserted.
AssetInitialize(off) ==
  /\ assets' = [k \in DOMAIN assets \cup DOMAIN off |->
                  IF k \in DOMAIN assets THEN assets[k]
                  ELSE AssetDocument(off[k])]
  /\ offered' = off
  /\ UNCHANGED <<hostAll, pureVars, facadeVars, normVars, linkVars, snapTaken,
                 snapAt>>

\* Assets::cache_navigation_tree: the entry is replaced by a copy that holds
\* the tree; Err("Missing asset.") and no change when there is no entry.
CacheNavigationTree(k, t) ==
  /\ assets' = IF k \notin DOMAIN assets THEN assets
               ELSE [assets EXCEPT ![k] = [text |-> assets[k].text,
                                            tree |-> t]]
  /\ UNCHANGED <<hostAll, pureVars, facadeVars, normVars, linkVars, snapTaken,
                 snapAt, offered>>

\* Assets::snapshot: the snapshot is another handle on the map; snapAt keeps
\* what the map held at that moment.
AssetSnapshot ==
  /\ snapTaken' = TRUE
  /\ snapAt' = assets
  /\ UNCHANGED <<hostAll, pureVars, facadeVars, normVars, linkVars, assets,
                 offered>>

AssetNext ==
  \/ \E S \in SUBSET AssetNames : \E off \in [S -> Texts] :
       AssetInitialize(off)
  \/ \E k \in AssetNames, t \in Trees : CacheNavigationTree(k, t)
  \/ AssetSnapshot

AssetSpec == Init /\ [][AssetNext]_vars

----------------------------------------------------------------------------
\* The rewriting of JSDoc links.

\* A text is a sequence of pieces, each a run of characters that the pattern
\* treats alike: the tag with its brace, a space, an http URL, the closing
\* brace, and the pieces that a rewritten link is made of.
\* The pattern is case-insensitive, so it takes a tag in any case; the
\* closure of replace_links compares the tag it captured with "linkcode".
TagTokens == {"{@link", "{@linkcode", "{@LINKCODE"}
\* Number of chunks of an input text.
MaxChunks == 7
\* What an input is built from; a tag comes with the space that the pattern
\* wants behind it.
Chunks ==
  {<<tag, " ">> : tag \in TagTokens} \cup {<<"http://u">>, <<" ">>, <<"}">>}
ChunkCount(t) == Len(t) - Cardinality({i \in 1..Len(t) : t[i] \in TagTokens})

\* [^ |}] and [^{}\n]
UrlClass(x) == x \notin {" ", "}"}
TextClass(x) == x \notin TagTokens \cup {"}"}

\* The last index of the run of URL pieces, or of text pieces, that follows
\* index e.
RECURSIVE UrlEnd(_, _)
UrlEnd(t, e) ==
  IF e < Len(t) /\ UrlClass(t[e + 1]) THEN UrlEnd(t, e + 1) ELSE e

RECURSIVE TextEnd(_, _)
TextEnd(t, f) ==
  IF f < Len(t) /\ TextClass(t[f + 1]) THEN TextEnd(t, f + 1) ELSE f

\* str::trim
RECURSIVE TrimStart(_)
TrimStart(q) == IF q # <<>> /\ Head(q) = " " THEN TrimStart(Tail(q)) ELSE q

RECURSIVE TrimEnd(_)
TrimEnd(q) ==
  IF q # <<>> /\ q[Len(q)] = " " THEN TrimEnd(SubSeq(q, 1, Len(q) - 1))
  ELSE q

Trim(q) == TrimEnd(TrimStart(q))

NoMatch ==
  [end |-> 0, tag |-> "", url |-> <<>>, text |-> <<>>, group3 |-> FALSE]

\* The match of JSDOC_LINKS_RE that starts at index i of t, if there is one:
\* the tag, a space, a URL that runs up to the first space or closing brace,
\* then either the closing brace, or a separator and a text of at least one
\* piece without braces that runs up to a closing brace.
JSDOC_LINKS_RE(t, i) ==
  IF ~(/\ i + 2 <= Len(t)
       /\ t[i] \in TagTokens
       /\ t[i + 1] = " "
       /\ t[i + 2] = "http://u")
    THEN NoMatch
  ELSE LET e == UrlEnd(t, i + 2)
           url == SubSeq(t, i + 2, e)
       IN  IF e = Len(t) THEN NoMatch
           ELSE IF t[e + 1] = "}"
             THEN [end |-> e + 1, tag |-> t[i], url |-> url, text |-> <<>>,
                   group3 |-> FALSE]
           ELSE LET f == TextEnd(t, e + 1)
                IN  IF f >= e + 2 /\ f < Len(t) /\ t[f + 1] = "}"
                      THEN [end |-> f + 1, tag |-> t[i], url |-> url,
                            text |-> SubSeq(t, e + 2, f), group3 |-> TRUE]
                      ELSE NoMatch

\* The link text: the trimmed third group, or the URL when the group took
\* no part in the match.
LinkText(c) == IF c.group3 THEN Trim(c.text) ELSE c.url

\* The closure of replace_links: the markdown link for the captures c, with
\* the text in backticks when the captured tag is "linkcode" as written.
\* In the pieces "['" and "'](" the quote writes the backtick.
Format(c) ==
  IF c.tag = "{@linkcode"
    THEN <<"['">> \o LinkText(c) \o <<"'](">> \o c.url \o <<")">>
    ELSE <<"[">> \o LinkText(c) \o <<"](">> \o c.url \o <<")">>

\* Regex::replace_all: the matches are taken from the left and do not
\* overlap; what no match covers is copied.
RECURSIVE ReplaceFrom(_, _)
ReplaceFrom(t, i) ==
  IF i > Len(t) THEN <<>>
  ELSE LET c == JSDOC_LINKS_RE(t, i)
       IN  IF c.end = 0 THEN <<t[i]>> \o ReplaceFrom(t, i + 1)
           ELSE Format(c) \o ReplaceFrom(t, c.end + 1)

replace_links(t) == ReplaceFrom(t, 1)

\* The documentation text grows by a chunk.
LinkInput(ch) ==
  /\ lonce = <<>>
  /\ ChunkCount(ltext) < MaxChunks
  /\ ltext' = ltext \o ch
  /\ UNCHANGED <<hostAll, pureVars, facadeVars, normVars, assetVars, lonce,
                 ltwice>>

\* replace_links is applied to the text.
LinkReplace ==
  /\ ltext # <<>>
  /\ lonce = <<>>
  /\ lonce' = replace_links(ltext)
  /\ UNCHANGED <<hostAll, pureVars, facadeVars, normVars, assetVars, ltext,
                 ltwice>>

\* replace_links is applied to its own output.
LinkReplaceAgain ==
  /\ lonce # <<>>
  /\ ltwice = <<>>
  /\ ltwice' = replace_links(lonce)
  /\ UNCHANGED <<hostAll, pureVars, facadeVars, normVars, assetVars, ltext,
                 lonce>>

LinkNext ==
  \/ \E ch \in Chunks : LinkInput(ch)
  \/ LinkReplace
  \/ LinkReplaceAgain

LinkSpec == Init /\ [][LinkNext]_vars

----------------------------------------------------------------------------
\* The filter text of a completion entry.

\* Number of pieces of an insert text.
MaxInsert == 4
\* The pieces of names and insert texts: "this.#" is "this." and then "#".
InsertPieces == {"this.", "#", "x", "['", "']"}
EntryNames == {<<"#", "x">>, <<"x">>}

\* str::starts_with
StartsWith(q, p) == Len(q) >= Len(p) /\ SubSeq(q, 1, Len(p)) = p

\* str::replace(p, ""): every non-overlapping occurrence of p, from the left.
RECURSIVE Remove(_, _)
Remove(q, p) ==
  IF q = <<>> THEN <<>>
  ELSE IF StartsWith(q, p) THEN Remove(SubSeq(q, Len(p) + 1, Len(q)), p)
  ELSE <<q[1]>> \o Remove(Tail(q), p)

\* BRACKET_ACCESSOR_RE matches q: a bracket and a quote, at least one
\* character, a quote and a bracket, from end to end.
BRACKET_ACCESSOR_RE(q) == Len(q) >= 3 /\ q[1] = "['" /\ q[Len(q)] = "']"

\* Regex::replace with the closure format!(".{}", &caps[1]).
BracketReplace(q) ==
  IF BRACKET_ACCESSOR_RE(q) THEN <<".">> \o SubSeq(q, 2, Len(q) - 1) ELSE q

\* CompletionEntry::get_filter_text
get_filter_text(e) ==
  LET it == e.insert_text
  IN  IF StartsWith(e.name, <<"#">>)
        THEN IF it # None
               THEN IF StartsWith(it.text, <<"this.", "#">>)
                      THEN Some(Remove(it.text, <<"this.", "#">>))
                      ELSE it
               ELSE None
      ELSE IF it # None /\ StartsWith(it.text, <<"this.">>) THEN None
      ELSE IF it # None /\ StartsWith(it.text, <<"['">>)
        THEN Some(BracketReplace(it.text))
      ELSE it

\* The analyzer names a completion entry.
FilterName(n) ==
  /\ entry = NoEntry
  /\ entry' = CompletionEntry(n, None)
  /\ UNCHANGED <<bridgeVars, besidesFilter, filter_text>>

\* The entry's insert text gets its first or a further piece.
FilterInsert(p) ==
  /\ entry # NoEntry
  /\ filter_text = NotYet
  /\ Len(entry.insert_text.text) < MaxInsert
  /\ entry' = CompletionEntry(entry.name,
                              Some(Append(entry.insert_text.text, p)))
  /\ UNCHANGED <<bridgeVars, besidesFilter, filter_text>>

\* as_completion_item asks for the filter text of the entry.
GetFilterText ==
  /\ entry # NoEntry
  /\ filter_text = NotYet
  /\ filter_text' = get_filter_text(entry)
  /\ UNCHANGED <<bridgeVars, besidesFilter, entry>>

FilterNext ==
  \/ \E n \in EntryNames : FilterName(n)
  \/ \E p \in InsertPieces : FilterInsert(p)
  \/ GetFilterText

FilterSpec == Init /\ [][FilterNext]_vars

----------------------------------------------------------------------------
\* The import statement of an auto-import completion.

\* Number of pieces of the new text of an edit.
MaxEdit == 3
EditPieces == {"import", "./b", "x"}
EditRanges == {1, 2}
\* import_data.module_specifier, and the specifiers the resolvers give;
\* the relative one contains the analyzer's.
module_specifier == <<"./b">>
NewSpecifier(a) ==
  IF a = "mapped" THEN <<"lib/b.ts">> ELSE <<"./b", ".ts">>

\* str::replace(p, r): every non-overlapping occurrence of p, from the left;
\* what was put in is not searched again.
RECURSIVE Replace(_, _, _)
Replace(q, p, r) ==
  IF q = <<>> THEN <<>>
  ELSE IF StartsWith(q, p)
    THEN r \o Replace(SubSeq(q, Len(p) + 1, Len(q)), p, r)
  ELSE <<q[1]>> \o Replace(Tail(q), p, r)

\* maybe_import_mapper.and_then(check_specifier).or_else(relative_specifier)
\* that asks relative_specifier first.
new_module_specifier_relativeFirst(i) ==
  IF i.relative # "none" THEN i.relative
  ELSE IF i.mapper \notin {"absent", "none"} THEN i.mapper
  ELSE "none"

\* maybe_import_mapper.and_then(check_specifier).or_else(relative_specifier)
new_module_specifier(i) ==
  IF i.mapper \notin {"absent", "none"} THEN i.mapper
  ELSE i.relative

\* update_import_statement
update_import_statement(e, i) ==
  IF i.import_data /\ i.norm_ok /\ new_module_specifier(i) # "none"
    THEN TextEdit(e.range,
                  Replace(e.new_text, module_specifier,
                          NewSpecifier(new_module_specifier(i))))
    ELSE e

\* The analyzer's completion details carry a text change for a range.
EditNew(r) ==
  /\ text_edit = NoEdit
  /\ text_edit' = TextEdit(r, <<>>)
  /\ UNCHANGED <<bridgeVars, besidesImport, item_data, updated>>

\* The new text of the change gets a further piece.
EditText(p) ==
  /\ text_edit # NoEdit
  /\ updated = NoEdit
  /\ Len(text_edit.new_text) < MaxEdit
  /\ text_edit' = TextEdit(text_edit.range, Append(text_edit.new_text, p))
  /\ UNCHANGED <<bridgeVars, besidesImport, item_data, updated>>

\* as_completion_item calls update_import_statement for the change.
UpdateImportStatement(i) ==
  /\ text_edit # NoEdit
  /\ updated = NoEdit
  /\ item_data' = i
  /\ updated' = update_import_statement(text_edit, i)
  /\ UNCHANGED <<bridgeVars, besidesImport, text_edit>>

ItemDatas ==
  {ItemData(d, n, m, r) : d \in BOOLEAN, n \in BOOLEAN,
                          m \in {"absent", "none", "mapped"},
                          r \in {"none", "relative"}}

ImportNext ==
  \/ \E r \in EditRanges : EditNew(r)
  \/ \E p \in EditPieces : EditText(p)
  \/ \E i \in ItemDatas : UpdateImportStatement(i)

ImportSpec == Init /\ [][ImportNext]_vars

----------------------------------------------------------------------------
\* The script names handed to the analyzer.

\* Number of module-graph imports, and of documents and dependencies.
MaxDocs == 3
\* "a" and "b" redirect to "r"; "m" redirects nowhere and does not exist.
DocSpecifiers == {"a", "b", "r", "m"}
node_types == "asset:///node_types.d.ts"

\* Documents::resolve_redirected and Documents::exists
resolve_redirected(x) == IF x \in {"a", "b"} THEN "r" ELSE x
exists(x) == x # "m"

\* The loop over module_graph_imports(): what it leaves in seen and result.
RECURSIVE PushImports(_, _, _)
PushImports(list, seen, result) ==
  IF list = <<>> THEN [seen |-> seen, result |-> result]
  ELSE IF Head(list) \notin seen
    THEN PushImports(Tail(list), seen \cup {Head(list)},
                     Append(result, Head(list)))
  ELSE PushImports(Tail(list), seen, result)

\* The loop over the documents and their dependencies: a specifier not yet
\* seen is marked as seen, and what it redirects to is pushed if it exists.
RECURSIVE PushDocs(_, _, _)
PushDocs(list, seen, result) ==
  IF list = <<>> THEN result
  ELSE IF Head(list) \notin seen
    THEN PushDocs(Tail(list), seen \cup {Head(list)},
                  IF exists(resolve_redirected(Head(list)))
                    THEN Append(result, resolve_redirected(Head(list)))
                    ELSE result)
  ELSE PushDocs(Tail(list), seen, result)

\* op_script_names
op_script_names(d) ==
  LET first == IF d.node THEN <<node_types>> ELSE <<>>
      second == PushImports(d.imports, IF d.node THEN {node_types} ELSE {},
                            first)
  IN  PushDocs(d.docs, second.seen, second.result)

\* The workspace uses the injected node types.
NamesNode ==
  /\ ~script_names.done
  /\ ~documents.node
  /\ documents' = Documents(TRUE, documents.imports, documents.docs)
  /\ UNCHANGED <<bridgeVars, besidesNames, script_names>>

\* A further module-graph import.
NamesImport(x) ==
  /\ ~script_names.done
  /\ Len(documents.imports) < MaxDocs
  /\ documents' = Documents(documents.node, Append(documents.imports, x),
                            documents.docs)
  /\ UNCHANGED <<bridgeVars, besidesNames, script_names>>

\* A further diagnosable document, or a dependency of the last one.
NamesDoc(x) ==
  /\ ~script_names.done
  /\ Len(documents.docs) < MaxDocs
  /\ documents' = Documents(documents.node, documents.imports,
                            Append(documents.docs, x))
  /\ UNCHANGED <<bridgeVars, besidesNames, script_names>>

\* The analyzer calls op_script_names.
OpScriptNames ==
  /\ ~script_names.done
  /\ script_names' = [done |-> TRUE, names |-> op_script_names(documents)]
  /\ UNCHANGED <<bridgeVars, besidesNames, documents>>

NamesNext ==
  \/ NamesNode
  \/ \E x \in DocSpecifiers : NamesImport(x)
  \/ \E x \in DocSpecifiers : NamesDoc(x)
  \/ OpScriptNames

NamesSpec == Init /\ [][NamesNext]_vars

----------------------------------------------------------------------------
\* The semantic tokens of a document.

\* Number of entries of Classifications::spans.
MaxSpans == 6
\* semantic_tokens::TYPE_OFFSET and semantic_tokens::MODIFIER_MASK
TYPE_OFFSET == 8
MODIFIER_MASK == 255
\* Classifications around the mask, with and without modifier bits.
Classes == {255, 256, 257, 513}
\* The text of the document: TextLines lines of LineLen characters; the
\* analyzer's spans lie within it.
LineLen == 2
TextLines == 2
Offsets == 0..(LineLen * TextLines - 1)

\* LineIndex::position_tsc
position_tsc(o) == [line |-> o \div LineLen, character |-> o % LineLen]

\* get_token_type_from_classification without the shift back by one.
get_token_type_from_classification_raw(c) ==
  IF c > MODIFIER_MASK THEN c \div (2 ^ TYPE_OFFSET) ELSE -1

\* Classifications::get_token_type_from_classification; -1 stands for the
\* failed assertion.
get_token_type_from_classification(c) ==
  IF c > MODIFIER_MASK THEN (c \div (2 ^ TYPE_OFFSET)) - 1 ELSE -1

\* Classifications::get_token_modifier_from_classification; the mask is
\* 2^TYPE_OFFSET - 1.
get_token_modifier_from_classification(c) == c % (MODIFIER_MASK + 1)

\* The i-th triple of the spans, from 0.
Triple(sp, i) ==
  [offset |-> sp[3 * i + 1], length |-> sp[3 * i + 2],
   classification |-> sp[3 * i + 3]]
StartPos(t) == position_tsc(t.offset)
\* The spans lie within the text, so the u32 sum does not overflow.
EndPos(t) == position_tsc(t.offset + t.length)

\* The body of the loop of to_semantic_tokens from triple i on, with the
\* tokens pushed so far.
RECURSIVE PushTokens(_, _, _)
PushTokens(sp, i, pushed) ==
  IF i >= Len(sp) \div 3 THEN SemanticTokens("ok", pushed)
  ELSE LET t == Triple(sp, i)
           token_type ==
             get_token_type_from_classification(t.classification)
       IN  IF token_type = -1 THEN SemanticTokens("panic", <<>>)
           ELSE IF /\ StartPos(t).line = EndPos(t).line
                   /\ StartPos(t).character <= EndPos(t).character
             THEN PushTokens(sp, i + 1,
                    Append(pushed,
                      [line |-> StartPos(t).line,
                       character |-> StartPos(t).character,
                       length |-> EndPos(t).character
                                    - StartPos(t).character,
                       token_type |-> token_type,
                       token_modifiers |->
                         get_token_modifier_from_classification(
                           t.classification)]))
           ELSE SemanticTokens("err", <<>>)

to_semantic_tokens(sp) == PushTokens(sp, 0, <<>>)

\* The values the next entry of the spans can take: an offset in the text, a
\* length that stays in the text, a classification.
NextEntries(sp) ==
  IF Len(sp) % 3 = 0 THEN Offsets
  ELSE IF Len(sp) % 3 = 1
    THEN 0..(LineLen * TextLines - sp[Len(sp)])
  ELSE Classes

\* The analyzer's encoded classifications get a further entry.
SpansInput(x) ==
  /\ semantic_tokens = NoTokens
  /\ Len(spans) < MaxSpans
  /\ x \in NextEntries(spans)
  /\ spans' = Append(spans, x)
  /\ UNCHANGED <<bridgeVars, besidesSem, semantic_tokens>>

\* The language server turns the classifications into semantic tokens.
ToSemanticTokens ==
  /\ semantic_tokens = NoTokens
  /\ semantic_tokens' = to_semantic_tokens(spans)
  /\ UNCHANGED <<bridgeVars, besidesSem, spans>>

SemNext ==
  \/ \E x \in Offsets \cup (0..(LineLen * TextLines)) \cup Classes :
       SpansInput(x)
  \/ ToSemanticTokens

SemSpec == Init /\ [][SemNext]_vars

----------------------------------------------------------------------------
\* The document symbols of a navigation tree.

\* Nodes and further spans of a navigation tree.
MaxNav == 3
\* Kinds and texts of the entries, and the spans they cover.
NavEntries ==
  {<<"alias", "f">>, <<"function", "f">>, <<"function", "<function>">>,
   <<"class", "<class>">>, <<"function", "">>}
NavSpans == {[start |-> 0, length |-> 1], [start |-> 2, length |-> 1]}

\* TextRange::intersect(..).is_some(): the ranges overlap or touch.
Intersects(a, b) ==
  LET lo == IF a.start >= b.start THEN a.start ELSE b.start
      ea == a.start + a.length
      eb == b.start + b.length
      hi == IF ea <= eb THEN ea ELSE eb
  IN  lo <= hi

\* NavigationTree::should_include_entry without the test of the kind.
should_include_entry_anyKind(n) ==
  n.text # "" /\ n.text # "<function>" /\ n.text # "<class>"

\* NavigationTree::should_include_entry
should_include_entry(n) ==
  IF n.kind = "alias" THEN FALSE
  ELSE n.text # "" /\ n.text # "<function>" /\ n.text # "<class>"

\* The lsp::DocumentSymbol pushed for a span of an entry: its name, kind,
\* range and children (the selection range and the tags are left out).
DocumentSymbol(n, span, symbol_children) ==
  [name |-> IF n.kind = "getter" THEN <<"(get) ", n.text>>
            ELSE IF n.kind = "setter" THEN <<"(set) ", n.text>>
            ELSE <<n.text>>,
   kind |-> n.kind, range |-> span, children |-> symbol_children]

\* NavigationTree::collect_document_symbols, with its loop over the spans
\* from the k-th on and, inside, its loop over the children from the j-th
\* on; should_include is carried from span to span.
RECURSIVE collect_document_symbols(_), CollectSpans(_, _, _, _)
RECURSIVE CollectChildren(_, _, _, _, _)
collect_document_symbols(n) ==
  IF ~should_include_entry(n) /\ n.child_items = <<>>
  THEN Collected(FALSE, <<>>)
  ELSE CollectSpans(n, 1, should_include_entry(n), <<>>)

CollectSpans(n, k, should_include, pushed) ==
  IF k > Len(n.spans) THEN Collected(should_include, pushed)
  ELSE LET c == CollectChildren(n, n.spans[k], 1, should_include, <<>>)
       IN  CollectSpans(n, k + 1, c.included,
             IF c.included
             THEN Append(pushed, DocumentSymbol(n, n.spans[k], c.symbols))
             ELSE pushed)

CollectChildren(n, range, j, should_include, symbol_children) ==
  IF j > Len(n.child_items)
  THEN Collected(should_include, symbol_children)
  ELSE LET child == n.child_items[j]
           should_traverse_child ==
             \E i \in 1..Len(child.spans) : Intersects(range, child.spans[i])
       IN  IF should_traverse_child
           THEN LET r == collect_document_symbols(child)
                IN  CollectChildren(n, range, j + 1,
                      should_include \/ r.included,
                      symbol_children \o r.symbols)
           ELSE CollectChildren(n, range, j + 1, should_include,
                  symbol_children)

\* Nodes and further spans of a tree.
RECURSIVE NavSize(_), NavSizes(_, _)
NavSize(n) == Len(n.spans) + NavSizes(n.child_items, 1)
NavSizes(items, j) ==
  IF j > Len(items) THEN 0 ELSE NavSize(items[j]) + NavSizes(items, j + 1)

\* The analyzer returns a single entry.
NavLeaf(e, s) ==
  /\ nav = NoTree
  /\ nav' = NavigationTree(e[1], e[2], <<s>>, <<>>)
  /\ UNCHANGED <<bridgeVars, besidesSym, document_symbols>>

\* The tree so far is the only child of a new entry.
NavParent(e, s) ==
  /\ nav # NoTree
  /\ ~document_symbols.done
  /\ NavSize(nav) < MaxNav
  /\ nav' = NavigationTree(e[1], e[2], <<s>>, <<nav>>)
  /\ UNCHANGED <<bridgeVars, besidesSym, document_symbols>>

\* The root gets a further child without children.
NavChild(e, s) ==
  /\ nav # NoTree
  /\ ~document_symbols.done
  /\ NavSize(nav) < MaxNav
  /\ nav' = [nav EXCEPT !.child_items =
               Append(@, NavigationTree(e[1], e[2], <<s>>, <<>>))]
  /\ UNCHANGED <<bridgeVars, besidesSym, document_symbols>>

\* The root gets a further span.
NavSpan(s) ==
  /\ nav # NoTree
  /\ ~document_symbols.done
  /\ NavSize(nav) < MaxNav
  /\ \A i \in 1..Len(nav.spans) : nav.spans[i] # s
  /\ nav' = [nav EXCEPT !.spans = Append(@, s)]
  /\ UNCHANGED <<bridgeVars, besidesSym, document_symbols>>

\* The language server collects the document symbols of the tree.
CollectDocumentSymbols ==
  /\ nav # NoTree
  /\ ~document_symbols.done
  /\ document_symbols' =
       [done |-> TRUE,
        included |-> collect_document_symbols(nav).included,
        symbols |-> collect_document_symbols(nav).symbols]
  /\ UNCHANGED <<bridgeVars, besidesSym, nav>>

SymNext ==
  \/ \E e \in NavEntries, s \in NavSpans : NavLeaf(e, s)
  \/ \E e \in NavEntries, s \in NavSpans : NavParent(e, s)
  \/ \E e \in NavEntries, s \in NavSpans : NavChild(e, s)
  \/ \E s \in NavSpans : NavSpan(s)
  \/ CollectDocumentSymbols

SymSpec == Init /\ [][SymNext]_vars

----------------------------------------------------------------------------
\* The code actions of a refactor.

\* Number of actions of one ApplicableRefactorInfo.
MaxActions == 3
\* The names of the actions, as the pieces the tests look at: the tag at
\* the start of the name and the text after it.
ActionNames ==
  {<<"constant_", "scope_0">>, <<"constant_", "scope_1">>,
   <<"constant_", "x">>, <<"function_", "scope_0">>,
   <<"Extract to type alias">>, <<"Extract to interface">>}

\* RefactorCodeActionKind::matches of EXTRACT_CONSTANT, EXTRACT_TYPE and
\* EXTRACT_INTERFACE: the name starts with the tag of the kind.
EXTRACT_CONSTANT(name) == name[1] = "constant_"
EXTRACT_TYPE(name) == name[1] = "Extract to type alias"
EXTRACT_INTERFACE(name) == name[1] = "Extract to interface"

\* SCOPE_RE and the parse of its capture: the digit after scope_, as a
\* one-element sequence.
get_scope(name) ==
  IF Len(name) = 2 /\ name[2] = "scope_0" THEN Some(<<0>>)
  ELSE IF Len(name) = 2 /\ name[2] = "scope_1" THEN Some(<<1>>)
  ELSE None

\* std::ptr::eq(&self, other): the address of the local that holds the
\* reference self against the address of the iterator's item, which is
\* another place whatever the two references point to.
SameAction(i, j) == FALSE

\* RefactorActionInfo::is_preferred of the i-th of all_actions.
is_preferred(i, all_actions) ==
  LET self == all_actions[i]
  IN  IF EXTRACT_CONSTANT(self)
      THEN IF get_scope(self) # None
           THEN \A j \in 1..Len(all_actions) :
                  (~SameAction(i, j) /\ EXTRACT_CONSTANT(all_actions[j]))
                    => IF get_scope(all_actions[j]) # None
                       THEN get_scope(self).text[1]
                              < get_scope(all_actions[j]).text[1]
                       ELSE TRUE
           ELSE FALSE
      ELSE EXTRACT_TYPE(self) \/ EXTRACT_INTERFACE(self)

\* ApplicableRefactorInfo::as_inline_code_action: the action's name and
\* whether it is preferred (title, kind and disabled are left out).
as_inline_code_action(i, all_actions) ==
  [action_name |-> all_actions[i],
   is_preferred |-> is_preferred(i, all_actions)]

\* ApplicableRefactorInfo::to_code_actions
to_code_actions(all_actions) ==
  [i \in 1..Len(all_actions) |-> as_inline_code_action(i, all_actions)]

\* The analyzer's refactor has a further action.
RefactorAction(name) ==
  /\ ~code_actions.done
  /\ Len(actions) < MaxActions
  /\ actions' = Append(actions, name)
  /\ UNCHANGED <<bridgeVars, besidesRefactor, code_actions>>

\* The language server turns the refactor into code actions.
ToCodeActions ==
  /\ ~code_actions.done
  /\ code_actions' = [done |-> TRUE, list |-> to_code_actions(actions)]
  /\ UNCHANGED <<bridgeVars, besidesRefactor, actions>>

RefactorNext ==
  \/ \E name \in ActionNames : RefactorAction(name)
  \/ ToCodeActions

RefactorSpec == Init /\ [][RefactorNext]_vars

----------------------------------------------------------------------------
\* Helpers of the properties.

Range(s) == {s[i] : i \in 1..Len(s)}
IsPrefix(s, t) == Len(s) <= Len(t) /\ \A i \in 1..Len(s) : s[i] = t[i]
NoDup(s) == \A i, j \in 1..Len(s) : s[i] = s[j] => i = j
Queued == {chan[i].id : i \in 1..Len(chan)}

\* The reply a call deserves for what the analyzer did during that call alone.
Expected(k) ==
  IF k.out = "throw" THEN Err("JsError")
  ELSE IF k.resp # 0 THEN Ok(k.resp)
  ELSE Err("RequestError")

\* The step in which the host finishes the request in hand.
Finishes == pc = "send" /\ pc' # "send"

----------------------------------------------------------------------------
\* C1: requests are invoked in the analyzer, and their replies sent, in the
\* order the channel accepted them: the invocations are a prefix of the
\* enqueue order and the sends a prefix of the invocations.
C1_Fifo == IsPrefix(invoked, enq) /\ IsPrefix(sendOrder, invoked)

\* Two requests were accepted one after the other and both were answered.
C1_Witness ==
  /\ Len(enq) >= 2
  /\ Len(sendOrder) >= 2
  /\ slot[enq[1]].st = "done"
  /\ slot[enq[2]].st = "done"

\* C2: at most one serverRequest execution is in progress at any instant,
\* however many requests are queued or awaiting their reply.
C2_OneActive == Cardinality(active) <= 1

\* A call is running while another request waits in the channel.
C2_Witness == active # {} /\ chan # <<>>

\* C3: every request the channel accepted is eventually completed, by one send
\* of its result or by the drop of its reply sender, never by both and never
\* by two sends.
C3_ReplyClosure ==
  /\ [](NoDup(sendOrder))
  /\ [](\A c \in Calls : ~(c \in Range(sendOrder) /\ slot[c].st = "closed"))
  /\ \A c \in Calls :
       (c \in Range(enq)) ~> (c \in Range(sendOrder) \/ slot[c].st = "closed")

\* A request queued behind one whose serverRequest threw got a result.
C3_Witness ==
  /\ Len(sendOrder) = 2
  /\ slot[sendOrder[1]].st = "done"
  /\ slot[sendOrder[1]].val = Err("JsError")
  /\ slot[sendOrder[2]].st = "done"
  /\ slot[sendOrder[2]].val.ok

\* C4: a success result carries a payload that op_respond received during the
\* same call.
C4_ReplyFromOwnCall ==
  (pc = "send" /\ value.ok) => (call.resp # 0 /\ value.data = call.resp)

\* C5: when serverRequest returns without a respond during the call, the
\* result is the error that no response was received.
C5_NoResponseError ==
  (pc = "send" /\ call.out = "return" /\ call.resp = 0)
    => value = Err("RequestError")

\* C6: a throwing serverRequest gives that request an error, is not run again
\* and leaves the host loop running with the channel untouched, and every
\* request after the first gets the result its own call deserves, whatever
\* happened to the requests before it.
C6_FailureIsolated ==
  /\ []((pc = "send" /\ call.out = "throw") => value = Err("JsError"))
  /\ [](NoDup(invoked))
  /\ [][(Finishes /\ call.out = "throw")
          => (pc' = "recv" /\ chan' = chan)]_vars
  /\ []((pc = "send" /\ last_id > 2) => value = Expected(call))

\* C7: the host thread never panics, and no reply sender is dropped unanswered.
C7_NoPanic == pc # "panicked" /\ \A c \in Calls : slot[c].st # "closed"

\* C8 as stated: finishing a restart request leaves a new runtime and a reset
\* started latch.
C8_RestartResets ==
  [][(Finishes /\ cur.method = "restart")
       => (~started' /\ ts_runtime' # ts_runtime)]_vars

\* C8: a restart request is run in the analyzer like any other request; the
\* host keeps its runtime and its started latch stays set, so serverInit runs
\* at most once per host thread.
C8_RestartKeepsRuntime ==
  /\ [][(Finishes /\ cur.method = "restart")
          => (started' /\ ts_runtime' = ts_runtime
              /\ cur.id \in Range(invoked))]_vars
  /\ [][started => started']_vars
  /\ [](initCount <= 1)

\* A restart request has its result ready to
\* send, with serverInit run once and a getDiagnostics request waiting.
C8_Witness ==
  /\ pc = "send"
  /\ cur.method = "restart"
  /\ value.ok
  /\ started
  /\ initCount = 1
  /\ chan # <<>>
  /\ Head(chan).method = "getDiagnostics"

\* C9: a send to a dropped receiver leaves the host in its loop with the
\* channel and every reply-slot untouched, and the requests still queued are
\* each answered afterwards.
C9_DroppedReceiver ==
  /\ [][(Finishes /\ slot[cur.id].st = "dropped")
          => (pc' = "recv" /\ chan' = chan /\ slot' = slot)]_vars
  /\ \A c \in Calls :
       (started /\ c \in Queued) ~> (c \in Range(sendOrder))
  /\ [](\A c \in Calls :
          (slot[c].st = "done" /\ c \in Range(sendOrder))
             => slot[c].val # NoValue)

\* A reply was discarded and the request queued behind it was answered.
C9_Witness ==
  /\ Len(sendOrder) = 2
  /\ slot[sendOrder[1]].st = "dropped"
  /\ slot[sendOrder[2]].st = "done"

\* C10: cancelling a token changes nothing of the channel, the host, the op
\* state or the reply-slots; a request leaves the channel only into the hands
\* of the host, whatever its token; a running call with a cancelled token
\* stays active; and the result of a call that responded and returned is that
\* response, sent to its slot.
C10_CancelIgnored ==
  /\ [][cancelled' # cancelled
          => UNCHANGED <<chan, hostVars, opState, slot, active>>]_vars
  /\ [][(Len(chan') < Len(chan) /\ pc = "recv")
          => (cur' = Head(chan) /\ chan' = Tail(chan)
              /\ pc' \in {"start", "request"})]_vars
  /\ [](pc = "script" => cur.id \in active)
  /\ []((pc = "send" /\ cur.tok \in cancelled /\ call.out = "return"
           /\ call.resp # 0) => value = Ok(call.resp))
  /\ [][(Finishes /\ slot[cur.id].st = "pending")
          => slot'[cur.id] = [st |-> "done", val |-> value]]_vars

\* The analyzer saw the cancellation of the running request's token, responded
\* all the same, and that response is the result about to be sent.
C10_Witness ==
  /\ pc = "send"
  /\ cur.tok \in cancelled
  /\ call.saw = "yes"
  /\ value.ok
  /\ slot[cur.id].st = "pending"

----------------------------------------------------------------------------
\* C11: during the call of a request the op state holds that request's token
\* and snapshot, and an answer of op_is_cancelled is the state of that token:
\* it is yes only for a supplied token that has been cancelled, never for the
\* default token and never because another request's token was cancelled.
C11_OwnToken ==
  /\ [](pc = "script" => (token = cur.tok /\ state_snapshot = cur.snap))
  /\ [](call.saw = "yes" => (cur.tok # 0 /\ cur.tok \in cancelled))
  /\ [][(pc = "script" /\ call'.saw # call.saw)
          => call'.saw = (IF cur.tok \in cancelled THEN "yes" ELSE "no")]_vars

\* The analyzer polled during a call with the default token while the token
\* of the other request was cancelled, and was told no.
C11_Witness ==
  /\ pc = "script"
  /\ cur.tok = 0
  /\ cancelled # {}
  /\ call.saw = "no"

\* C19: while the host waits on the channel its op state holds neither the
\* snapshot nor the token of a request it has answered.
C19_Released ==
  pc = "recv" => (state_snapshot = 0 /\ token = 0)

----------------------------------------------------------------------------
\* The facade calls that have returned or panicked.
Done == 1..Len(fret)

\* The host thread was gone for the request of call c.
HostGone(c) == fres[c].err \in {"SendError", "RecvError"}

\* C12: when the host thread is gone the operation comes back to its caller
\* with an error, or with the empty result of a best-effort operation, and
\* does not panic the caller's task.
C12_NoFacadePanic ==
  \A c \in Done : HostGone(c) => fret[c].kind \in {"error", "empty"}

\* C13: get_code_fixes and get_completions give their empty result for every
\* failure of the request, and never an error.
C13_BestEffort ==
  \A c \in Done :
    fop[c] \in {"get_code_fixes", "get_completions"}
      => /\ fret[c].kind \in {"value", "empty"}
         /\ ~fres[c].ok => fret[c] = Returned("empty", "")

\* get_completions got an undecodable payload and get_code_fixes a closed
\* channel, and both gave their empty result.
C13_Witness ==
  /\ Len(fret) = 2
  /\ fop[1] = "get_completions"
  /\ fres[1].err = "DecodeError"
  /\ fret[1].kind = "empty"
  /\ fop[2] = "get_code_fixes"
  /\ fres[2].err = "SendError"
  /\ fret[2].kind = "empty"

\* C14 as stated: get_diagnostics and find_rename_locations give an internal
\* error for every failure of the request.
C14_InternalError ==
  \A c \in Done :
    (fop[c] \in {"get_diagnostics", "find_rename_locations"} /\ ~fres[c].ok)
      => fret[c] = Returned("error", "internal_error")

----------------------------------------------------------------------------
\* C15: for every spelling s the analyzer has passed to normalize,
\* denormalizing the normalized s gives s back.
C15_Reversible == \A s \in emitted : Denormalize(Collapse(s)) = s

\* C16: the text of an existing asset entry never changes and the entry is
\* never removed.
C16_TextStable ==
  [][\A k \in DOMAIN assets :
       k \in DOMAIN assets' /\ assets'[k].text = assets[k].text]_vars

\* initialize reported another text for the seeded asset 1, which by then
\* had a tree cached, and a new asset 2; asset 1 kept its text.
C16_Witness ==
  /\ DOMAIN offered = {1, 2}
  /\ offered[1] = "t2"
  /\ AssetsGet(1).text = "t1"
  /\ AssetsGet(1).tree # "-"
  /\ AssetsGet(2).text = offered[2]

\* C17: a navigation tree, once attached to an entry, is never replaced.
C17_TreeSetOnce ==
  [][\A k \in DOMAIN assets :
       assets[k].tree # "-" => assets'[k].tree = assets[k].tree]_vars

\* C18: what a snapshot shows is what the registry held when it was taken.
C18_SnapshotImmutable ==
  snapTaken => \A k \in AssetNames : SnapshotGet(k) = Lookup(snapAt, k)

----------------------------------------------------------------------------
\* C20: applying replace_links to its own output changes nothing.
C20_Idempotent == ltwice # <<>> => ltwice = lonce

\* The whole text is one link sequence, with captures Whole.
Whole == JSDOC_LINKS_RE(ltext, 1)
IsOneLink == ltext # <<>> /\ Whole.end = Len(ltext)

\* C21: a text that is one link sequence is rewritten to the markdown link
\* of its text, or of its URL when it has no text; the text stands in
\* backticks if and only if the tag is a linkcode tag.
C21_Rewrites ==
  (lonce # <<>> /\ IsOneLink)
    => lonce = (IF Whole.tag \in {"{@linkcode", "{@LINKCODE"}
                  THEN <<"['">> \o LinkText(Whole) \o <<"'](">>
                         \o Whole.url \o <<")">>
                  ELSE <<"[">> \o LinkText(Whole) \o <<"](">>
                         \o Whole.url \o <<")">>)

----------------------------------------------------------------------------
\* q without its prefix p, if it has that prefix.
StripPrefix(q, p) ==
  IF StartsWith(q, p) THEN SubSeq(q, Len(p) + 1, Len(q)) ELSE q

\* C22: the filter text of an entry whose name starts with '#' is absent
\* without an insert text and else the insert text without its "this.#"
\* prefix; for another entry an insert text that starts with "this." gives
\* none, a bracket accessor ['x'] gives .x, and any other is used as it is.
C22_FilterText ==
  filter_text # NotYet =>
    LET it == entry.insert_text
    IN  IF StartsWith(entry.name, <<"#">>)
          THEN filter_text =
                 (IF it = None THEN None
                  ELSE Some(StripPrefix(it.text, <<"this.", "#">>)))
        ELSE IF it # None /\ StartsWith(it.text, <<"this.">>)
          THEN filter_text = None
        ELSE IF it # None /\ BRACKET_ACCESSOR_RE(it.text)
          THEN filter_text = Some(<<".">> \o SubSeq(it.text, 2,
                                                     Len(it.text) - 1))
        ELSE filter_text = it


\* The text q holds the pieces p in a row.
Contains(q, p) ==
  \E k \in 1..Len(q) : StartsWith(SubSeq(q, k, Len(q)), p)

\* C23: the returned edit has the range of the given one; its text is the
\* given text with the analyzer's specifier replaced by the mapper's when a
\* mapper is supplied and answers, else by the relative specifier; without
\* import data or without the analyzer's specifier in the text the edit is
\* returned as it was.
C23_ImportStatement ==
  updated # NoEdit =>
    /\ updated.range = text_edit.range
    /\ (~item_data.import_data
          \/ ~Contains(text_edit.new_text, module_specifier))
         => updated = text_edit
    /\ (item_data.import_data /\ item_data.norm_ok)
         => /\ item_data.mapper = "mapped"
                 => updated.new_text =
                      Replace(text_edit.new_text, module_specifier,
                              NewSpecifier("mapped"))
            /\ (item_data.mapper # "mapped"
                  /\ item_data.relative = "relative")
                 => updated.new_text =
                      Replace(text_edit.new_text, module_specifier,
                              NewSpecifier("relative"))

\* A mapper answered although a relative specifier exists too, and the
\* import statement names the mapper's specifier.
C23_Witness ==
  /\ item_data = ItemData(TRUE, TRUE, "mapped", "relative")
  /\ text_edit.new_text = <<"import", "x", "./b">>
  /\ updated = TextEdit(text_edit.range, <<"import", "x", "lib/b.ts">>)


\* C24: every specifier in the payload of a request is the denormalized
\* spelling of the request's specifier.
C24_Denormalized == wire.sent = wire.denormalized


----------------------------------------------------------------------------
\* C25: serverInit succeeds at most once, and not again after it failed; it
\* has run before any serverRequest is invoked, so that no serverRequest
\* runs on a runtime that was not bootstrapped; and it has not run as long
\* as no request arrived.
C25_BootstrapOnce ==
  /\ initCount = (IF started THEN 1 ELSE 0)
  /\ pc = "panicked" => initCount = 0
  /\ (invoked # <<>> \/ pc \in {"request", "script", "send"})
       => (started /\ initCount = 1)
  /\ enq = <<>> => (initCount = 0 /\ pc \in {"recv", "exit"})

\* Two requests were run by the analyzer after a single bootstrap.
C25_Witness == Len(invoked) = 2 /\ pc = "send" /\ initCount = 1

\* C30: once every handle is dropped the host thread does not end, by exit
\* or otherwise, before it has sent the result of every accepted request.
C30_DrainsBeforeExit ==
  (~handles /\ pc \in {"exit", "panicked"})
    => Range(enq) \subseteq Range(sendOrder)


----------------------------------------------------------------------------
\* C26: the list op_script_names returns names no specifier twice, and
\* starts with the node types when they are injected.
C26_ScriptNames ==
  script_names.done
    => /\ NoDup(script_names.names)
       /\ documents.node => script_names.names[1] = node_types


----------------------------------------------------------------------------
\* The triples of the spans, and what is wrong with one.
Triples == 0..((Len(spans) \div 3) - 1)
BadClass(i) == Triple(spans, i).classification <= MODIFIER_MASK
CrossesLine(i) ==
  StartPos(Triple(spans, i)).line # EndPos(Triple(spans, i)).line

\* C27: a classification that is not above the mask is an assertion
\* failure; with sound classifications a triple whose ends lie on different
\* lines gives an internal error, and without such a triple there is one
\* token per triple, of type (classification >> TYPE_OFFSET) - 1 and with
\* the modifiers classification & MODIFIER_MASK.
C27_SemanticTokens ==
  semantic_tokens # NoTokens =>
    /\ semantic_tokens.st = "panic" => \E i \in Triples : BadClass(i)
    /\ (\E i \in Triples :
          BadClass(i) /\ \A j \in 0..(i - 1) : ~CrossesLine(j))
         => semantic_tokens.st = "panic"
    /\ ((\E i \in Triples : CrossesLine(i))
          /\ \A i \in Triples : ~BadClass(i))
         => semantic_tokens.st = "err"
    /\ (\A i \in Triples : ~BadClass(i) /\ ~CrossesLine(i))
         => /\ semantic_tokens.st = "ok"
            /\ Len(semantic_tokens.data) = Len(spans) \div 3
            /\ \A i \in Triples :
                 LET c == Triple(spans, i).classification
                     tok == semantic_tokens.data[i + 1]
                 IN  /\ tok.token_type = (c \div (2 ^ TYPE_OFFSET)) - 1
                     /\ tok.token_modifiers = c % (MODIFIER_MASK + 1)

\* Two triples on one line each gave two tokens, one of them with a
\* modifier bit.
C27_Witness ==
  /\ semantic_tokens.st = "ok"
  /\ Len(semantic_tokens.data) = 2
  /\ semantic_tokens.data[1].token_type = 1
  /\ semantic_tokens.data[1].token_modifiers = 1
  /\ semantic_tokens.data[2].token_type = 0


----------------------------------------------------------------------------
\* An entry that is wanted for itself, and one that is included: wanted, or
\* with an included child that has a span intersecting one of its own.
Wanted(n) ==
  n.kind # "alias" /\ n.text \notin {"", "<function>", "<class>"}
RECURSIVE Included(_)
Touches(n, k, child) ==
  \E i \in 1..Len(child.spans) : Intersects(n.spans[k], child.spans[i])
IncludedBy(n, k) ==
  \/ Wanted(n)
  \/ \E j \in 1..k, c \in 1..Len(n.child_items) :
       Touches(n, j, n.child_items[c]) /\ Included(n.child_items[c])
Included(n) == IncludedBy(n, Len(n.spans))
HasSymbol(k) ==
  \E i \in 1..Len(document_symbols.symbols) :
    document_symbols.symbols[i].range = nav.spans[k]

\* C28: an entry produces a document symbol if and only if its kind is not
\* alias and its text is neither empty nor <function> nor <class>, whatever
\* its children are.
C28_IncludedForItself ==
  document_symbols.done =>
    \A k \in 1..Len(nav.spans) : HasSymbol(k) <=> Wanted(nav)

\* C28, amended: an entry produces a document symbol for one of its spans
\* if and only if it is wanted for itself or one of its children with a span
\* intersecting that span or an earlier one is itself included, and
\* collect_document_symbols returns whether the entry was included.
C28_IncludedWithChildren ==
  document_symbols.done =>
    /\ document_symbols.included = Included(nav)
    /\ \A k \in 1..Len(nav.spans) : HasSymbol(k) <=> IncludedBy(nav, k)
    /\ Len(document_symbols.symbols) <= Len(nav.spans)

\* An unnamed function whose only child is an unnamed function around a
\* named one: a symbol for each of the three.
C28_Witness ==
  /\ document_symbols.done
  /\ ~Wanted(nav)
  /\ Len(nav.child_items) = 1
  /\ ~Wanted(nav.child_items[1])
  /\ Len(document_symbols.symbols) = 1
  /\ Len(document_symbols.symbols[1].children) = 1
  /\ Len(document_symbols.symbols[1].children[1].children) = 1


----------------------------------------------------------------------------
\* The scope number of an Extract Constant action is the smallest of the
\* Extract Constant actions that have one.
SmallestScope(i) ==
  /\ EXTRACT_CONSTANT(actions[i])
  /\ get_scope(actions[i]) # None
  /\ \A j \in 1..Len(actions) :
       (EXTRACT_CONSTANT(actions[j]) /\ get_scope(actions[j]) # None)
         => get_scope(actions[i]).text[1] <= get_scope(actions[j]).text[1]

\* C29: of the Extract Constant actions exactly the one with the smallest
\* scope number is preferred, Extract Type and Extract Interface actions
\* are always preferred, and no other action is.
C29_Preferred ==
  code_actions.done =>
    \A i \in 1..Len(actions) :
      code_actions.list[i].is_preferred
        <=> \/ SmallestScope(i)
            \/ EXTRACT_TYPE(actions[i])
            \/ EXTRACT_INTERFACE(actions[i])

====
